---- MODULE Spec2Model ----
(***************************************************************************)
(* The verify run of the trusted-setup ceremony tool (src/src/verify.ts,   *)
(* with the helpers of src/src/utils.ts it calls): setup steps, the loop   *)
(* over the contribution folders, the external verifier invocations and    *)
(* the summary table.                                                      *)
(*                                                                         *)
(* Strings that the code compares, sorts, tests with endsWith or a regular *)
(* expression, or strips with path.basename are sequences of UTF-16 code   *)
(* units (48..57 digits, 95 "_", 46 ".", 97.. lower-case letters).         *)
(***************************************************************************)
EXTENDS Integers, Sequences, FiniteSets, TLC

(* ------------------------------ bounds --------------------------------- *)

\* contribution folder candidates 0001_c .. (besides 0000_initial and 0000_a)
MaxContribs == 2
\* artifact (.zkey) file name candidates a.zkey, b.zkey, ..
MaxArtifacts == 2
\* the longest outcome list printResultsTable is applied to on its own
MaxOutcomes == 3

(* ------------------------- strings and paths --------------------------- *)

\* ".zkey"
DotZkey == <<46, 122, 107, 101, 121>>
\* ".r1cs"
DotR1cs == <<46, 114, 49, 99, 115>>
\* '0000_initial'
InitialFolderName == <<48, 48, 48, 48, 95, 105, 110, 105, 116, 105, 97, 108>>
contributionRootFolder == "./contributions"

\* an optional message that is not set
Undefined == "undefined"
\* the undefined that Array.prototype.find returns (no file name has a negative code unit)
NotFound == <<-1>>

\* String.prototype.endsWith
EndsWith(s, suffix) ==
    /\ Len(s) >= Len(suffix)
    /\ SubSeq(s, Len(s) - Len(suffix) + 1, Len(s)) = suffix

\* f.match(/^\d{4}_/)
MatchesOrdinalPrefix(f) ==
    /\ Len(f) >= 5
    /\ \A p \in 1..4 : f[p] \in 48..57
    /\ f[5] = 95

\* path.basename(p, ext) of a name without directory separators
Basename(p, ext) ==
    IF ext = p THEN <<>>
    ELSE IF EndsWith(p, ext) THEN SubSeq(p, 1, Len(p) - Len(ext))
    ELSE p

\* path.join(contributionRootFolder, folder, file): the three segments
PathJoin(root, folder, file) == <<root, folder, file>>

\* s sorts strictly before t in the default Array.prototype.sort order
\* (code units compared left to right, a proper prefix first)
LexLess(s, t) ==
    \E p \in 1..(Len(s) + 1) :
        /\ p <= Len(t)
        /\ \A q \in 1..(p - 1) : s[q] = t[q]
        /\ (p = Len(s) + 1 \/ s[p] < t[p])

RECURSIVE Insert(_, _)
Insert(sorted, x) ==
    IF sorted = <<>> THEN <<x>>
    ELSE IF LexLess(x, Head(sorted)) THEN <<x>> \o sorted
    ELSE <<Head(sorted)>> \o Insert(Tail(sorted), x)

\* Array.prototype.sort() without a comparator
RECURSIVE SortStrings(_)
SortStrings(s) ==
    IF s = <<>> THEN <<>>
    ELSE Insert(SortStrings(SubSeq(s, 1, Len(s) - 1)), s[Len(s)])

Range(s) == {s[p] : p \in 1..Len(s)}

\* the elements of s without repetition, in order of first occurrence
RECURSIVE Distinct(_)
Distinct(s) ==
    IF s = <<>> THEN <<>>
    ELSE LET d == Distinct(SubSeq(s, 1, Len(s) - 1))
         IN  IF s[Len(s)] \in Range(d) THEN d ELSE Append(d, s[Len(s)])

(* --------------------------- the file system --------------------------- *)

\* 000n as four digits
Digits4(n) ==
    <<48 + ((n \div 1000) % 10), 48 + ((n \div 100) % 10),
      48 + ((n \div 10) % 10), 48 + (n % 10)>>

\* "0001_c", "0002_c", ..
ContribName(n) == Digits4(n) \o <<95, 99>>
\* "0000_a": matches the folder pattern and sorts before 0000_initial
EarlyName == Digits4(0) \o <<95, 97>>
\* "a.zkey", "b.zkey", ..
ArtifactName(k) == <<96 + k>> \o DotZkey
\* "r.r1cs"
R1csName == <<114>> \o DotR1cs

ContribNames == {ContribName(n) : n \in 1..MaxContribs}
FolderNames == {InitialFolderName, EarlyName} \cup ContribNames
ArtifactNames == {ArtifactName(k) : k \in 1..MaxArtifacts}

\* the artifacts first .. last in ascending name order
RECURSIVE Ascending(_, _)
Ascending(first, last) ==
    IF first > last THEN <<>>
    ELSE <<ArtifactName(first)>> \o Ascending(first + 1, last)

Reverse(s) == [p \in 1..Len(s) |-> s[Len(s) + 1 - p]]

\* what readdirSync can return for a contribution folder: the last n
\* artifacts, in descending name order (the listing order is not specified)
ArtifactListings ==
    {Reverse(Ascending(MaxArtifacts + 1 - n, MaxArtifacts)) : n \in 0..MaxArtifacts}
\* for 0000_initial: the first n artifacts in ascending order, after the
\* circuit description file when the folder has one
InitialListings ==
    LET l == {Ascending(1, n) : n \in 0..MaxArtifacts}
    IN  l \cup {<<R1csName>> \o d : d \in l}

\* an entry of the contribution root: absent, a directory that cannot be
\* listed (readdirSync throws), or a directory with its listing
NoDir == [kind |-> "none", entries |-> <<>>]
NoAccess == [kind |-> "noaccess", entries |-> <<>>]
Dir(l) == [kind |-> "dir", entries |-> l]

\* the folder 0000_a is empty or holds the first artifact
DirStates(name) ==
    {NoDir, NoAccess} \cup
    {Dir(l) : l \in IF name = InitialFolderName THEN InitialListings
                    ELSE IF name = EarlyName THEN {<<>>, Ascending(1, 1)}
                    ELSE ArtifactListings}

\* the order in which readdirSync lists the contribution root (not sorted)
RootOrder ==
    [p \in 1..MaxContribs |-> ContribName(MaxContribs + 1 - p)]
        \o <<InitialFolderName, EarlyName>>

\* other names an entry of the contribution root can have: "001_c" (three
\* digits), "x0001_c" (the digits not at the start), "0003" (no underscore)
\* and "0010_b" (a folder of the ceremony with a two-digit ordinal)
OtherNames ==
    <<<<48, 48, 49, 95, 99>>, <<120>> \o ContribName(1), <<48, 48, 48, 51>>,
      <<48, 48, 49, 48, 95, 98>>>>

\* the order in which readdirSync lists the entries of the root
ListingOrder == OtherNames \o RootOrder

\* an entry of the contribution root that is a file
File == [kind |-> "file", entries |-> <<>>]

RECURSIVE Assignments(_)
Assignments(names) ==
    IF names = <<>> THEN {<<>>}
    ELSE {Append(a, d) : a \in Assignments(SubSeq(names, 1, Len(names) - 1)),
                         d \in DirStates(names[Len(names)])}

\* every content of the contribution root
FileSystems ==
    {[name \in FolderNames |->
        a[CHOOSE p \in 1..Len(RootOrder) : RootOrder[p] = name]] :
     a \in Assignments(RootOrder)}

\* the S3 bucket of the ceremony: 0000_initial and every contribution, each
\* with all its files
Bucket ==
    [name \in FolderNames |->
        IF name = InitialFolderName THEN Dir(<<R1csName>> \o Ascending(1, MaxArtifacts))
        ELSE IF name \in ContribNames THEN Dir(Reverse(Ascending(1, MaxArtifacts)))
        ELSE NoDir]

\* a local folder after aws s3 cp --recursive copied the remote one into it
Copied(local, remote) ==
    IF remote.kind # "dir" \/ local.kind = "noaccess" THEN local
    ELSE Dir(local.entries \o SelectSeq(remote.entries, LAMBDA f : f \notin Range(local.entries)))

(* ------------------------------ utils.ts ------------------------------- *)

\* readdirSync of the contribution root: its entries, in listing order
readdirRoot(fs) ==
    SelectSeq(ListingOrder, LAMBDA name : name \in DOMAIN fs /\ fs[name].kind # "none")

\* dirent.isDirectory()
isDirectory(entry) == entry.kind \in {"dir", "noaccess"}

\* the names of the directories of the contribution root, in listing order
getDirectories(fs) ==
    SelectSeq(readdirRoot(fs), LAMBDA name : isDirectory(fs[name]))

\* a listing that is filtered and not sorted
getContributionFoldersUnsorted(fs) ==
    SelectSeq(getDirectories(fs), MatchesOrdinalPrefix)

getContributionFolders(fs) ==
    SortStrings(SelectSeq(getDirectories(fs), MatchesOrdinalPrefix))

\* readdirSync of a contribution folder throws
ListingThrows(fs, directory) == fs[directory].kind # "dir"

\* the result of getZkeyFiles when readdirSync does not throw
getZkeyFiles(fs, directory) ==
    SelectSeq(fs[directory].entries, LAMBDA file : EndsWith(file, DotZkey))

existsSync(fs, directory) == fs[directory].kind # "none"

\* fs.ensureDirSync of a contribution folder
ensureDirSync(fs, directory) ==
    IF fs[directory].kind = "none" THEN [fs EXCEPT ![directory] = Dir(<<>>)] ELSE fs

\* downloadFromS3(prefix): the file systems and return values it can end with.
\* The copy fails (CLI unavailable, command failed) or brings the files of the bucket.
downloadFolderFromS3(fs, prefix) ==
    LET made == ensureDirSync(fs, prefix)
    IN  {[dirs |-> made, success |-> FALSE]} \cup
        {[dirs |-> [made EXCEPT ![prefix] = Copied(made[prefix], Bucket[prefix])],
          success |-> TRUE] : x \in IF made[prefix].kind = "dir" THEN {1} ELSE {}}

\* a download whose failure is thrown to the caller
downloadFromS3Throws(fs) ==
    {[dirs |-> fs, success |-> FALSE, threw |-> TRUE],
     [dirs |-> [name \in FolderNames |-> Copied(fs[name], Bucket[name])],
      success |-> TRUE, threw |-> FALSE]}

\* downloadFromS3() of the whole bucket into the contribution root: the CLI
\* is missing, the command fails or an exception is caught (false is
\* returned), or the files of the bucket are copied (true is returned)
downloadFromS3(fs) ==
    {[dirs |-> fs, success |-> FALSE, threw |-> FALSE],
     [dirs |-> [name \in FolderNames |-> Copied(fs[name], Bucket[name])],
      success |-> TRUE, threw |-> FALSE]}

\* a check that looks for the .zkey files only
hasRequiredInitialFilesZkeyOnly(fs) ==
    IF ListingThrows(fs, InitialFolderName) THEN FALSE
    ELSE IF getZkeyFiles(fs, InitialFolderName) = <<>> THEN FALSE
    ELSE TRUE

hasRequiredInitialFiles(fs) ==
    IF ListingThrows(fs, InitialFolderName) THEN FALSE
    ELSE IF SelectSeq(fs[InitialFolderName].entries,
                   LAMBDA file : EndsWith(file, DotR1cs)) = <<>> THEN FALSE
    ELSE IF getZkeyFiles(fs, InitialFolderName) = <<>> THEN FALSE
    ELSE TRUE

\* crossCheckFilesWithS3(folderName): the files missing locally are
\* downloaded, unless the CLI or the listing of the bucket fails
crossCheckFilesWithS3(fs, folderName) ==
    {fs, [fs EXCEPT ![folderName] = Copied(fs[folderName], Bucket[folderName])]}

\* element idx of a JavaScript array (indices from 0)
At(s, idx) == s[idx + 1]

\* the path ensurePtauFile returns
PtauPath == "powersOfTau28_hez_final_17.ptau"

(* ------------------------------ verify.ts ------------------------------ *)

\* how execSync of the snarkjs child process ends in a run: the child exits
\* with status 0, or execSync throws the Error of a non-zero exit status
ExecResults == {"exit0", "nonzero"}

\* every way the try block of verifyZkeyContribution can end: as above, or
\* execSync throws the Error of a failed spawn, or a value that is not an
\* Error is thrown (the case the catch block provides the fallback text for)
TryResults == ExecResults \cup {"spawnfail", "nonerror"}

\* the child process has been started and execSync has not returned yet
Running == "running"

\* error instanceof Error
InstanceOfError(r) == r \in {"nonzero", "spawnfail"}

\* error.message of the Error execSync throws
ExecErrorMessage(r) ==
    IF r = "spawnfail" THEN "spawnSync /bin/sh ENOENT" ELSE "Command failed"

UnknownErrorMessage == "Unknown error"

\* a catch block that keeps no message
verifyZkeyContributionNoMessage(r) ==
    IF r = "exit0"
    THEN [success |-> TRUE, errorMessage |-> Undefined]
    ELSE [success |-> FALSE, errorMessage |-> Undefined]

\* a catch block that never takes the message of the Error
verifyZkeyContributionAlwaysUnknown(r) ==
    IF r = "exit0"
    THEN [success |-> TRUE, errorMessage |-> Undefined]
    ELSE [success |-> FALSE, errorMessage |-> UnknownErrorMessage]

\* the two zkey files in the wrong order
ZkviArgumentsSwapped(initialZkeyFile, ptau, contributionZkeyFile) ==
    <<contributionZkeyFile, ptau, initialZkeyFile>>

\* the positional arguments of snarkjs zkvi, in command-line order
ZkviArguments(initialZkeyFile, ptau, contributionZkeyFile) ==
    <<initialZkeyFile, ptau, contributionZkeyFile>>

\* the value verifyZkeyContribution returns when its try block ends with r
verifyZkeyContribution(r) ==
    IF r = "exit0"
    THEN [success |-> TRUE, errorMessage |-> Undefined]
    ELSE [success |-> FALSE,
          errorMessage |-> IF InstanceOfError(r) THEN ExecErrorMessage(r)
                           ELSE UnknownErrorMessage]

\* a find whose test accepts any file: the first file of the initial folder
FindFirst(files, zkeyFile) ==
    IF files = <<>> THEN NotFound ELSE Head(files)

\* initialZkeyFiles.find(file => file === zkeyFile)
RECURSIVE Find(_, _)
Find(files, zkeyFile) ==
    IF files = <<>> THEN NotFound
    ELSE IF Head(files) = zkeyFile THEN Head(files)
    ELSE Find(Tail(files), zkeyFile)

\* !initialZkeyFile
Falsy(v) == v = NotFound \/ v = <<>>

\* the outcome pushed a second time (an unmatched artifact that falls through
\* to the push after the verification)
PushTwice(results, outcome) == Append(Append(results, outcome), outcome)

\* the outcome put at the front of the list
PushFront(results, outcome) == <<outcome>> \o results

\* results.push(outcome)
Push(results, outcome) == Append(results, outcome)

\* a loop that starts at the initial folder
FirstContributionIndexZero == 1 - 1

\* the index of the first folder the loop of main verifies
FirstContributionIndex == 1

\* each folder verified against the folder before it
PreviousFolder(initial, folders, idx) == At(folders, idx - 1)

\* the folder main passes to verifyContribution as initialFolder
ReferenceFolder(initial, folders, idx) == initial

MissingInitialMessage == "Missing initial zkey file"

\* console.error: No .zkey files found in <folder>
NoZkeyFilesMessage == "No .zkey files found"

\* a run that goes on with a single folder
MinFoldersOne == 2 - 1

\* contributionFolders.length < 2: the folders a verification needs
MinFolders == 2

\* an exec that returns at once and leaves the child process running
ExecReturnsAtOnce == FALSE

\* execSync returns only when the child process has exited
ExecBlocks == TRUE

\* console.log: Initial setup folder not found locally or missing required
\* files. Attempting to download from S3...
AttemptingDownloadMessage == "Attempting to download initial setup from S3"

\* a download only when no folder is found locally
needsDownloadOnlyWhenEmpty(localContributionFolders) ==
    Len(localContributionFolders) = 0

\* main downloads all contributions: no local contribution folder, or only one
needsDownload(localContributionFolders) ==
    IF Len(localContributionFolders) > 0
    THEN Len(localContributionFolders) = 1
    ELSE TRUE

\* checkRequiredEnvVars(): returns, or throws when the configuration is missing
checkRequiredEnvVars == {[threw |-> FALSE], [threw |-> TRUE]}

\* ensurePtauFile(): returns the path of the file, or throws when it is missing
ensurePtauFile ==
    {[threw |-> FALSE, path |-> PtauPath], [threw |-> TRUE, path |-> Undefined]}

(* ------------------------------- state --------------------------------- *)

VARIABLES
    pc,                    \* the next step of main
    dirs,                  \* the folders of the contribution root
    ptauFile,              \* main: const ptauFile
    contributionFolders,   \* main: const contributionFolders
    initialFolder,         \* main: const initialFolder
    i,                     \* main: the loop index
    contributionZkeyFiles, \* verifyContribution: files of the current folder
    initialZkeyFiles,      \* verifyContribution: files of the initial folder
    k,                     \* verifyContribution: position in contributionZkeyFiles
    allSuccessful,         \* verifyContribution: let allSuccessful
    verificationResults,   \* main: const verificationResults
    invocations,           \* the snarkjs zkvi child processes run so far
    report,                \* what printResultsTable printed
    console,               \* the messages of main that tell the runs apart
    exitCode               \* the exit code of the process

vars == <<pc, dirs, ptauFile, contributionFolders, initialFolder, i,
          contributionZkeyFiles, initialZkeyFiles, k, allSuccessful,
          verificationResults, invocations, report, console, exitCode>>

NoReport == [printed |-> FALSE]

Init ==
    /\ pc = "checkRequiredEnvVars"
    /\ dirs \in FileSystems
    /\ ptauFile = Undefined
    /\ contributionFolders = <<>>
    /\ initialFolder = NotFound
    /\ i = 0
    /\ contributionZkeyFiles = <<>>
    /\ initialZkeyFiles = <<>>
    /\ k = 0
    /\ allSuccessful = TRUE
    /\ verificationResults = <<>>
    /\ invocations = <<>>
    /\ report = NoReport
    /\ console = <<>>
    /\ exitCode = 0

loopVars == <<contributionZkeyFiles, initialZkeyFiles, k, allSuccessful>>
mainVars == <<ptauFile, contributionFolders, initialFolder, i>>

\* a catch block that reports the error and lets main return
FatalReturns ==
    /\ pc' = "done"
    /\ console' = Append(console, "Error")
    /\ exitCode' = exitCode

\* the catch block of main: report the error and process.exit(1)
Fatal ==
    /\ pc' = "done"
    /\ console' = Append(console, "Error")
    /\ exitCode' = 1

(* -------------------------- printResultsTable -------------------------- *)

\* a circuit without outcome shown as failed
CellOfMissingFails(folderResults, circuit) ==
    LET hits == SelectSeq(folderResults, LAMBDA r : r.circuitName = circuit)
    IN  IF hits = <<>> THEN "FAIL"
        ELSE IF hits[Len(hits)].success THEN "PASS" ELSE "FAIL"

\* resultByCircuit[circuit] || "N/A" for the outcomes of one folder: the
\* last outcome of the circuit decides
CellOf(folderResults, circuit) ==
    LET hits == SelectSeq(folderResults, LAMBDA r : r.circuitName = circuit)
    IN  IF hits = <<>> THEN "N/A"
        ELSE IF hits[Len(hits)].success THEN "PASS" ELSE "FAIL"

\* Object.keys(folderGroups): the folders of the outcomes, in order of first occurrence
folderKeys(results) ==
    Distinct([p \in 1..Len(results) |-> results[p].contributionFolder])

\* rows printed in the order of the keys
tableRowsInsertionOrder(results) == folderKeys(results)

\* Object.keys(folderGroups).sort(): the folders of the rows, in printing order
tableRows(results) == SortStrings(folderKeys(results))

\* column headers in the order of first occurrence
allCircuitsUnsorted(results) ==
    Distinct([p \in 1..Len(results) |-> results[p].circuitName])

\* [...new Set(results.map(r => r.circuitName))].sort()
allCircuits(results) ==
    SortStrings(Distinct([p \in 1..Len(results) |-> results[p].circuitName]))

\* a total that counts the cells of the table
totalTestsCells(results) == Len(tableRows(results)) * Len(allCircuits(results))

\* results.length
totalTests(results) == Len(results)

\* results.filter(r => r.success).length
passedTests(results) == Len(SelectSeq(results, LAMBDA r : r.success))

\* totalTests - passedTests
failedTests(results) == totalTests(results) - passedTests(results)

\* failed outcomes listed once each
failedOutcomesDistinct(results) == Distinct(SelectSeq(results, LAMBDA r : ~r.success))

\* results.filter(r => !r.success)
failedOutcomes(results) == SelectSeq(results, LAMBDA r : ~r.success)

\* a line of the failure listing that shows the message as it is
failureLineRawMessage(result) ==
    [contributionFolder |-> result.contributionFolder,
     circuitName |-> result.circuitName,
     errorMessage |-> result.errorMessage]

\* the line of the failure listing for a failed outcome:
\* folder - circuit: errorMessage || "Verification failed"
failureLine(result) ==
    [contributionFolder |-> result.contributionFolder,
     circuitName |-> result.circuitName,
     errorMessage |-> IF result.errorMessage \in {Undefined, ""}
                      THEN "Verification failed" ELSE result.errorMessage]

printResultsTable(results) ==
    [printed |-> TRUE,
     rows |-> tableRows(results),
     columns |-> allCircuits(results),
     cells |-> [folder \in Range(tableRows(results)) |->
                 [circuit \in Range(allCircuits(results)) |->
                     CellOf(SelectSeq(results, LAMBDA r : r.contributionFolder = folder), circuit)]],
     totalTests |-> totalTests(results),
     passedTests |-> passedTests(results),
     failedTests |-> failedTests(results),
     failuresPrinted |-> failedTests(results) > 0,
     failures |-> IF failedTests(results) > 0
                  THEN [p \in 1..Len(failedOutcomes(results)) |->
                            failureLine(failedOutcomes(results)[p])]
                  ELSE <<>>]

(* ------------------------------- actions ------------------------------- *)

\* main: checkRequiredEnvVars() and ensureDirSync of the root
MainCheckEnv ==
    /\ pc = "checkRequiredEnvVars"
    /\ \E r \in checkRequiredEnvVars :
        IF r.threw THEN Fatal
        ELSE /\ pc' = "ensurePtauFile"
             /\ UNCHANGED <<console, exitCode>>
    /\ UNCHANGED <<dirs, mainVars, loopVars, verificationResults, invocations, report>>

\* main: const ptauFile = ensurePtauFile()
MainEnsurePtau ==
    /\ pc = "ensurePtauFile"
    /\ \E r \in ensurePtauFile :
        IF r.threw THEN Fatal /\ UNCHANGED ptauFile
        ELSE /\ pc' = "ensureInitialSetup"
             /\ ptauFile' = r.path
             /\ UNCHANGED <<console, exitCode>>
    /\ UNCHANGED <<dirs, contributionFolders, initialFolder, i, loopVars,
                   verificationResults, invocations, report>>

\* main: ensureInitialSetup() up to the download: the initial folder is
\* missing or lacks required files and a download is announced, or it is
\* cross-checked with the bucket and ensureInitialSetup returns
MainEnsureInitialSetup ==
    /\ pc = "ensureInitialSetup"
    /\ IF ~existsSync(dirs, InitialFolderName) \/ ~hasRequiredInitialFiles(dirs)
       THEN /\ console' = Append(console, AttemptingDownloadMessage)
            /\ pc' = "downloadInitialSetup"
            /\ UNCHANGED dirs
       ELSE /\ \E g \in crossCheckFilesWithS3(dirs, InitialFolderName) : dirs' = g
            /\ pc' = "download"
            /\ UNCHANGED console
    /\ UNCHANGED <<mainVars, loopVars, verificationResults, invocations, report, exitCode>>

\* ensureInitialSetup(): downloadFromS3(initialFolder) and the second check
\* of the required files; ensureInitialSetup throws or returns
MainDownloadInitialSetup ==
    /\ pc = "downloadInitialSetup"
    /\ \E r \in downloadFolderFromS3(dirs, InitialFolderName) :
        /\ dirs' = r.dirs
        /\ IF ~r.success \/ ~hasRequiredInitialFiles(r.dirs)
           THEN Fatal
           ELSE /\ pc' = "download"
                /\ UNCHANGED <<console, exitCode>>
    /\ UNCHANGED <<mainVars, loopVars, verificationResults, invocations, report>>

\* main: the local listing and the download of all contributions
MainDownload ==
    /\ pc = "download"
    /\ LET localContributionFolders == getContributionFolders(dirs)
       IN  IF needsDownload(localContributionFolders)
           THEN \E r \in downloadFromS3(dirs) :
                /\ dirs' = r.dirs
                /\ IF r.threw
                   THEN /\ pc' = "done"
                        /\ console' = console \o
                                <<"Downloading all contributions from S3", "Error">>
                        /\ exitCode' = 1
                   ELSE /\ pc' = "refresh"
                        /\ console' = Append(console, "Downloading all contributions from S3")
                        /\ UNCHANGED exitCode
           ELSE /\ dirs' = dirs
                /\ console' = Append(console, "Using already downloaded contributions")
                /\ pc' = "refresh"
                /\ UNCHANGED exitCode
    /\ UNCHANGED <<mainVars, loopVars, verificationResults, invocations, report>>

\* main: the refreshed listing, the early return and the choice of initialFolder
MainRefresh ==
    /\ pc = "refresh"
    /\ contributionFolders' = getContributionFolders(dirs)
    /\ IF Len(contributionFolders') < MinFolders
       THEN /\ pc' = "done"
            /\ console' = Append(console, "Nothing to verify yet")
            /\ UNCHANGED <<initialFolder, i>>
       ELSE /\ initialFolder' = At(contributionFolders', 0)
            /\ i' = FirstContributionIndex
            /\ pc' = IF FirstContributionIndex < Len(contributionFolders')
                     THEN "verifyContribution" ELSE "printResultsTable"
            /\ UNCHANGED console
    /\ UNCHANGED <<dirs, ptauFile, loopVars, verificationResults, invocations,
                   report, exitCode>>

\* main: i++ after verifyContribution returned, then the loop test
NextFolder ==
    /\ i' = i + 1
    /\ pc' = IF i + 1 < Len(contributionFolders) THEN "verifyContribution"
             ELSE "printResultsTable"

\* verifyContribution up to its loop: the two listings and the early returns
VerifyContributionBegin ==
    /\ pc = "verifyContribution"
    /\ LET contributionFolder == At(contributionFolders, i)
           baseline == ReferenceFolder(initialFolder, contributionFolders, i)
       IN  IF ListingThrows(dirs, contributionFolder)
           THEN Fatal /\ UNCHANGED <<i, loopVars>>
           ELSE IF getZkeyFiles(dirs, contributionFolder) = <<>>
           THEN /\ NextFolder
                /\ contributionZkeyFiles' = <<>>
                /\ console' = Append(console, NoZkeyFilesMessage)
                /\ UNCHANGED <<initialZkeyFiles, k, allSuccessful, exitCode>>
           ELSE IF ListingThrows(dirs, baseline)
           THEN /\ Fatal
                /\ contributionZkeyFiles' = getZkeyFiles(dirs, contributionFolder)
                /\ UNCHANGED <<i, initialZkeyFiles, k, allSuccessful>>
           ELSE IF getZkeyFiles(dirs, baseline) = <<>>
           THEN /\ NextFolder
                /\ contributionZkeyFiles' = getZkeyFiles(dirs, contributionFolder)
                /\ initialZkeyFiles' = <<>>
                /\ console' = Append(console, NoZkeyFilesMessage)
                /\ UNCHANGED <<k, allSuccessful, exitCode>>
           ELSE /\ contributionZkeyFiles' = getZkeyFiles(dirs, contributionFolder)
                /\ initialZkeyFiles' = getZkeyFiles(dirs, baseline)
                /\ allSuccessful' = TRUE
                /\ k' = 0
                /\ pc' = "verifyArtifact"
                /\ UNCHANGED <<i, console, exitCode>>
    /\ UNCHANGED <<dirs, ptauFile, contributionFolders, initialFolder,
                   verificationResults, invocations, report>>

\* the end of an iteration of the loop of verifyContribution: the next
\* artifact, or verifyContribution returns and main goes on to the next folder
NextArtifact ==
    IF k + 1 < Len(contributionZkeyFiles)
    THEN /\ k' = k + 1
         /\ pc' = "verifyArtifact"
         /\ UNCHANGED i
    ELSE /\ NextFolder
         /\ UNCHANGED k

\* one iteration of the loop of verifyContribution up to the call of
\* execSync: an unmatched artifact is recorded and the iteration ends; for a
\* matched one the child process is started and the driver waits in execSync
VerifyArtifact ==
    /\ pc = "verifyArtifact"
    /\ LET contributionFolder == At(contributionFolders, i)
           baseline == ReferenceFolder(initialFolder, contributionFolders, i)
           zkeyFile == At(contributionZkeyFiles, k)
           circuitName == Basename(zkeyFile, DotZkey)
           initialZkeyFile == Find(initialZkeyFiles, zkeyFile)
           fullInitialZkeyPath == PathJoin(contributionRootFolder, baseline, initialZkeyFile)
           fullContributionZkeyPath == PathJoin(contributionRootFolder, contributionFolder, zkeyFile)
       IN  IF Falsy(initialZkeyFile)
           THEN /\ verificationResults' = Push(verificationResults,
                        [contributionFolder |-> contributionFolder,
                         circuitName |-> circuitName,
                         success |-> FALSE,
                         errorMessage |-> MissingInitialMessage])
                /\ allSuccessful' = FALSE
                /\ NextArtifact
                /\ UNCHANGED invocations
           ELSE /\ invocations' = Append(invocations,
                        [argv |-> ZkviArguments(fullInitialZkeyPath, ptauFile,
                                                fullContributionZkeyPath),
                         result |-> Running])
                /\ IF ExecBlocks
                   THEN /\ pc' = "execSync"
                        /\ UNCHANGED <<i, k>>
                   ELSE NextArtifact
                /\ UNCHANGED <<verificationResults, allSuccessful>>
    /\ UNCHANGED <<dirs, ptauFile, contributionFolders, initialFolder,
                   contributionZkeyFiles, initialZkeyFiles, report, console, exitCode>>

\* the try block of verifyZkeyContribution ends in one of the ways of
\* `results`: verifyZkeyContribution returns, the outcome is pushed and the
\* iteration ends
ExecSyncReturnFrom(results) ==
    /\ pc = "execSync"
    /\ \E r \in results :
        LET res == verifyZkeyContribution(r)
        IN  /\ invocations' = [invocations EXCEPT ![Len(invocations)].result = r]
            /\ verificationResults' = Push(verificationResults,
                    [contributionFolder |-> At(contributionFolders, i),
                     circuitName |-> Basename(At(contributionZkeyFiles, k), DotZkey),
                     success |-> res.success,
                     errorMessage |-> res.errorMessage])
            /\ allSuccessful' = (allSuccessful /\ res.success)
    /\ NextArtifact
    /\ UNCHANGED <<dirs, ptauFile, contributionFolders, initialFolder,
                   contributionZkeyFiles, initialZkeyFiles, report, console, exitCode>>

\* execSync returns or throws as it does in a run
ExecSyncReturn == ExecSyncReturnFrom(ExecResults)

\* main: printResultsTable(verificationResults), then main returns
MainPrintResults ==
    /\ pc = "printResultsTable"
    /\ report' = printResultsTable(verificationResults)
    /\ console' = Append(console, "VERIFICATION SUMMARY")
    /\ pc' = "done"
    /\ UNCHANGED <<dirs, mainVars, loopVars, verificationResults, invocations, exitCode>>

Next ==
    \/ MainCheckEnv
    \/ MainEnsurePtau
    \/ MainEnsureInitialSetup
    \/ MainDownloadInitialSetup
    \/ MainDownload
    \/ MainRefresh
    \/ VerifyContributionBegin
    \/ VerifyArtifact
    \/ ExecSyncReturn
    \/ MainPrintResults

Spec == Init /\ [][Next]_vars

\* the process runs until main returns or exits
FairSpec == Spec /\ WF_vars(Next)

(* ------------------ getContributionFolders on its inputs ---------------- *)

\* every content of a contribution root whose entries are absent, files or
\* directories, under the names of the ceremony and the other names
Roots == [Range(ListingOrder) -> {NoDir, File, Dir(<<>>)}]

ListInit ==
    /\ pc = "getContributionFolders"
    /\ dirs \in Roots
    /\ ptauFile = Undefined
    /\ contributionFolders = <<>>
    /\ initialFolder = NotFound
    /\ i = 0
    /\ contributionZkeyFiles = <<>>
    /\ initialZkeyFiles = <<>>
    /\ k = 0
    /\ allSuccessful = TRUE
    /\ verificationResults = <<>>
    /\ invocations = <<>>
    /\ report = NoReport
    /\ console = <<>>
    /\ exitCode = 0

\* const contributionFolders = getContributionFolders()
ListContributionFolders ==
    /\ pc = "getContributionFolders"
    /\ contributionFolders' = getContributionFolders(dirs)
    /\ pc' = "done"
    /\ UNCHANGED <<dirs, ptauFile, initialFolder, i, loopVars, verificationResults,
                   invocations, report, console, exitCode>>

ListNext == ListContributionFolders

ListSpec == ListInit /\ [][ListNext]_vars

(* --------------------- printResultsTable on its inputs ------------------ *)

\* the outcomes of the contribution folders and circuits of the ceremony
Outcomes ==
    {[contributionFolder |-> folder,
      circuitName |-> Basename(f, DotZkey),
      success |-> ok,
      errorMessage |-> IF ok THEN Undefined ELSE m] :
        folder \in ContribNames, f \in ArtifactNames, ok \in BOOLEAN,
        m \in {MissingInitialMessage, Undefined}}

RECURSIVE ListsUpTo(_, _)
ListsUpTo(set, n) ==
    IF n = 0 THEN {<<>>}
    ELSE LET shorter == ListsUpTo(set, n - 1)
         IN  shorter \cup {Append(l, x) : l \in shorter, x \in set}

\* the outcome lists of at most MaxOutcomes outcomes, in any order
OutcomeLists == ListsUpTo(Outcomes, MaxOutcomes)

ReportInit ==
    /\ pc = "printResultsTable"
    /\ dirs = Bucket
    /\ ptauFile = PtauPath
    /\ contributionFolders = <<>>
    /\ initialFolder = NotFound
    /\ i = 0
    /\ contributionZkeyFiles = <<>>
    /\ initialZkeyFiles = <<>>
    /\ k = 0
    /\ allSuccessful = TRUE
    /\ verificationResults \in OutcomeLists
    /\ invocations = <<>>
    /\ report = NoReport
    /\ console = <<>>
    /\ exitCode = 0

ReportNext == MainPrintResults

\* printResultsTable applied to every outcome list
ReportSpec == ReportInit /\ [][ReportNext]_vars

(* ------------------- the verifier adapter on its inputs ----------------- *)

\* a contribution root that holds every folder of the ceremony with all its
\* files, or none of them yet
AdapterInit ==
    /\ Init
    /\ dirs \in {Bucket, [name \in FolderNames |-> NoDir]}

\* the try block of verifyZkeyContribution ends in any of its ways
ExecSyncEnds == ExecSyncReturnFrom(TryResults)

AdapterNext ==
    \/ MainCheckEnv
    \/ MainEnsurePtau
    \/ MainEnsureInitialSetup
    \/ MainDownloadInitialSetup
    \/ MainDownload
    \/ MainRefresh
    \/ VerifyContributionBegin
    \/ VerifyArtifact
    \/ ExecSyncEnds
    \/ MainPrintResults

\* the run of main with verifyZkeyContribution applied to every way its try
\* block can end
AdapterSpec == AdapterInit /\ [][AdapterNext]_vars

(* ------------------------ notions of the claims ------------------------ *)

\* main has passed the early return: the loop over the folders has started
LoopEntered == initialFolder # NotFound

\* the baseline: the folder at index 0 of the ordered folder list
Baseline == IF contributionFolders = <<>> THEN NotFound ELSE At(contributionFolders, 0)

\* the indices of the contribution folders of the ordered folder list
ContributionIndices == 1..(Len(contributionFolders) - 1)

\* the artifacts of a folder of the contribution root
ArtifactsOf(folder) == Range(getZkeyFiles(dirs, folder))

\* the call of verifyContribution for the folder at index j has returned
FolderProcessed(j) == LoopEntered /\ j < i

\* the loop of verifyContribution has handled artifact f of the folder at index j
ArtifactHandled(j, f) ==
    /\ f \in ArtifactsOf(At(contributionFolders, j))
    /\ ArtifactsOf(Baseline) # {}
    /\ \/ FolderProcessed(j)
       \/ /\ pc \in {"verifyArtifact", "execSync"}
          /\ j = i
          /\ \E p \in 0..(k - 1) : At(contributionZkeyFiles, p) = f

\* the loop has handled artifact f of the folder at index j, or the driver
\* waits in execSync for the verifier invocation of that artifact
ArtifactReached(j, f) ==
    \/ ArtifactHandled(j, f)
    \/ /\ pc = "execSync"
       /\ j = i
       /\ At(contributionZkeyFiles, k) = f

\* the outcomes recorded for an artifact of a folder
OutcomesOf(folder, f) ==
    SelectSeq(verificationResults,
              LAMBDA r : r.contributionFolder = folder /\ r.circuitName = Basename(f, DotZkey))

\* the verifier invocations whose current artifact is file f of a folder
InvocationsOf(folder, f) ==
    SelectSeq(invocations,
              LAMBDA v : v.argv[3] = PathJoin(contributionRootFolder, folder, f))

\* the run is over and the summary table was printed
Completed == pc = "done" /\ report.printed

\* the cell of the printed table for a folder and a circuit, if it has one
CellAt(folder, circuit) ==
    IF folder \in Range(report.rows) /\ circuit \in Range(report.columns)
    THEN report.cells[folder][circuit]
    ELSE "no cell"

\* main has got past the three setup steps (it reported which folders it uses)
SetupPassed ==
    \E p \in 1..Len(console) :
        console[p] \in {"Using already downloaded contributions",
                        "Downloading all contributions from S3"}

\* main has computed the ordered folder list
ChainListed == SetupPassed /\ pc # "refresh"

\* the folder can be listed
Listable(folder) == ~ListingThrows(dirs, folder)

\* the contribution folder at index j has no artifact, or the baseline has none
NoArtifacts(j) ==
    \/ Listable(At(contributionFolders, j)) /\ ArtifactsOf(At(contributionFolders, j)) = {}
    \/ Listable(Baseline) /\ ArtifactsOf(Baseline) = {}

\* the index of a folder in the ordered folder list
FolderIndexOf(name) ==
    CHOOSE j \in 0..(Len(contributionFolders) - 1) : At(contributionFolders, j) = name

(* ------------------------------- claims -------------------------------- *)

\* C1: when the run has ended and the verification of an artifact of the
\* contribution folder at index a failed, every later folder j > a was
\* processed and each of its artifacts has exactly one outcome, whose success
\* is that of its own verifier invocation (false for an unmatched artifact).
C1_LaterFoldersProcessed ==
    (pc = "done" /\ LoopEntered) =>
        \A a \in ContributionIndices :
            (\E f \in ArtifactNames :
                \E q \in 1..Len(InvocationsOf(At(contributionFolders, a), f)) :
                    InvocationsOf(At(contributionFolders, a), f)[q].result # "exit0")
            => \A j \in ContributionIndices :
                 j > a =>
                    /\ FolderProcessed(j)
                    /\ \A f \in ArtifactsOf(At(contributionFolders, j)) :
                        LET o == OutcomesOf(At(contributionFolders, j), f)
                            v == InvocationsOf(At(contributionFolders, j), f)
                        IN  /\ Len(o) = 1
                            /\ o[1].success = (Len(v) = 1 /\ v[1].result = "exit0")

\* C2: once the loop over the folders has started, nothing ends the process
\* with an error: the catch block of main is never reached and the exit code
\* stays 0.
C2_NoErrorLeavesTheLoop ==
    LoopEntered => (exitCode = 0 /\ \A p \in 1..Len(console) : console[p] # "Error")

\* C3: a run whose setup succeeded and that found at least two folders ends
\* with the summary table printed exactly once and without a non-zero exit.
C3_SummaryAndExitZero ==
    (pc = "done" /\ LoopEntered) =>
        /\ report.printed
        /\ Len(SelectSeq(console, LAMBDA m : m = "VERIFICATION SUMMARY")) = 1
        /\ exitCode = 0

\* C4: the baseline folder is never verified: no outcome names it as the
\* contribution folder and no verifier invocation has its current artifact in it.
C4_BaselineNeverVerified ==
    /\ \A p \in 1..Len(verificationResults) :
        verificationResults[p].contributionFolder # Baseline
    /\ \A q \in 1..Len(invocations) : invocations[q].argv[3][2] # Baseline

\* C4 witness: a completed run with outcomes and verifier invocations
C4_Witness == Completed /\ Len(invocations) >= 2 /\ Len(verificationResults) >= 2

\* C5: the reference artifact of every verifier invocation is a file of the
\* baseline, the lexically first folder of the contribution root that matches
\* the folder pattern; it is never a file of the folder before the current
\* one (unless that is the baseline) or of another contribution folder.
C5_ReferenceIsBaseline ==
    invocations # <<>> =>
        /\ \A q \in 1..Len(invocations) :
            /\ invocations[q].argv[1][2] = Baseline
            /\ invocations[q].argv[1][3] \in ArtifactsOf(Baseline)
        /\ \A name \in FolderNames :
            (existsSync(dirs, name) /\ MatchesOrdinalPrefix(name))
                => ~LexLess(name, Baseline)
        /\ \A j \in ContributionIndices : Baseline # At(contributionFolders, j)

\* C5 witness: an invocation for a folder whose predecessor is not the baseline
C5_Witness ==
    /\ Len(contributionFolders) >= 3
    /\ \E q \in 1..Len(invocations) :
        invocations[q].argv[3][2] = At(contributionFolders, 2)

\* C6: every verifier invocation has exactly the three arguments (baseline
\* artifact, public-parameters file, current artifact): the first is in the
\* baseline folder, the third in a contribution folder, both have the same
\* file name, and the second is the one path ensurePtauFile returned.
C6_ThreeArgumentsInOrder ==
    \A q \in 1..Len(invocations) :
        LET argv == invocations[q].argv
        IN  /\ Len(argv) = 3
            /\ argv[1][1] = contributionRootFolder /\ argv[1][2] = Baseline
            /\ argv[2] = ptauFile /\ ptauFile # Undefined
            /\ argv[3][1] = contributionRootFolder
            /\ \E j \in ContributionIndices : argv[3][2] = At(contributionFolders, j)
            /\ argv[1][3] = argv[3][3]
            /\ \A q2 \in 1..Len(invocations) : invocations[q2].argv[2] = argv[2]

\* C6 witness: invocations for two different folders
C6_Witness ==
    \E q1, q2 \in 1..Len(invocations) :
        invocations[q1].argv[3][2] # invocations[q2].argv[3][2]

C8_UnmatchedRecordedAndRunGoesOn ==
    (pc = "done" /\ LoopEntered) =>
        \A j \in ContributionIndices :
            \A f \in ArtifactsOf(At(contributionFolders, j)) \ ArtifactsOf(Baseline) :
                LET o == OutcomesOf(At(contributionFolders, j), f)
                IN  /\ Len(o) = 1
                    /\ ~o[1].success
                    /\ o[1].errorMessage = MissingInitialMessage
                    /\ Len(InvocationsOf(At(contributionFolders, j), f)) = 0
                    /\ \A j2 \in ContributionIndices : FolderProcessed(j2)

\* C9 as stated: in a completed run an artifact of the baseline that a
\* contribution folder lacks has no outcome for that folder, is not among the
\* failures, and its cell in the table is the not-applicable marker.
C9_AbsentArtifactCellIsNA ==
    Completed =>
        \A j \in ContributionIndices :
            \A f \in ArtifactsOf(Baseline) \ ArtifactsOf(At(contributionFolders, j)) :
                /\ OutcomesOf(At(contributionFolders, j), f) = <<>>
                /\ CellAt(At(contributionFolders, j), Basename(f, DotZkey)) = "N/A"
                /\ \A p \in 1..Len(report.failures) :
                    ~(/\ report.failures[p].contributionFolder = At(contributionFolders, j)
                      /\ report.failures[p].circuitName = Basename(f, DotZkey))

\* C9 amended: an artifact of the baseline that a contribution folder lacks
\* never has an outcome for that folder; in a completed run it is not among
\* the failures, and the table has a cell for it only if the folder has a row
\* (some outcome of the folder) and the circuit a column (some outcome of the
\* circuit): that cell is the not-applicable marker, never PASS or FAIL.
C9_AbsentArtifactNeverFails ==
    \A j \in ContributionIndices :
        \A f \in ArtifactsOf(Baseline) \ ArtifactsOf(At(contributionFolders, j)) :
            LET folder == At(contributionFolders, j)
                circuit == Basename(f, DotZkey)
            IN  /\ OutcomesOf(folder, f) = <<>>
                /\ Completed =>
                    /\ CellAt(folder, circuit) \in {"N/A", "no cell"}
                    /\ CellAt(folder, circuit) = "N/A" <=>
                        /\ \E p \in 1..Len(verificationResults) :
                            verificationResults[p].contributionFolder = folder
                        /\ \E p \in 1..Len(verificationResults) :
                            verificationResults[p].circuitName = circuit
                    /\ \A p \in 1..Len(report.failures) :
                        ~(/\ report.failures[p].contributionFolder = folder
                          /\ report.failures[p].circuitName = circuit)
                    /\ report.failedTests =
                        Len(SelectSeq(verificationResults, LAMBDA r : ~r.success))

\* C9 witness: a printed table with a not-applicable cell for an artifact of
\* the baseline that the folder of the row lacks
C9_Witness ==
    /\ Completed
    /\ \E j \in ContributionIndices :
        \E f \in ArtifactsOf(Baseline) \ ArtifactsOf(At(contributionFolders, j)) :
            CellAt(At(contributionFolders, j), Basename(f, DotZkey)) = "N/A"

\* C10: in every state no two outcomes have the same contribution folder and
\* circuit name, and an artifact of a contribution folder has exactly one
\* outcome when the loop has handled it (matched or not) and none otherwise.
C10_OneOutcomePerPair ==
    /\ \A p, q \in 1..Len(verificationResults) :
        (/\ verificationResults[p].contributionFolder = verificationResults[q].contributionFolder
         /\ verificationResults[p].circuitName = verificationResults[q].circuitName) => p = q
    /\ \A j \in ContributionIndices : \A f \in ArtifactNames :
        Len(OutcomesOf(At(contributionFolders, j), f)) =
            IF ArtifactHandled(j, f) THEN 1 ELSE 0
    /\ \A p \in 1..Len(verificationResults) :
        \E j \in ContributionIndices : \E f \in ArtifactNames :
            /\ verificationResults[p].contributionFolder = At(contributionFolders, j)
            /\ verificationResults[p].circuitName = Basename(f, DotZkey)

\* C10 witness: a completed run with a matched and an unmatched outcome for
\* one folder and outcomes for a second folder
C10_Witness ==
    /\ Completed
    /\ \E p, q \in 1..Len(verificationResults) :
        /\ verificationResults[p].contributionFolder = verificationResults[q].contributionFolder
        /\ verificationResults[p].errorMessage = MissingInitialMessage
        /\ verificationResults[q].errorMessage # MissingInitialMessage
    /\ \E p, q \in 1..Len(verificationResults) :
        verificationResults[p].contributionFolder # verificationResults[q].contributionFolder

\* C11: every outcome of the outcome list carries an error message exactly
\* when its success is false: the outcome of a verifier invocation that
\* exited with 0 has none, the outcome of a failed invocation and the outcome
\* of an unmatched artifact have one.
C11_MessageIffFailed ==
    /\ \A p \in 1..Len(verificationResults) :
        (verificationResults[p].errorMessage # Undefined) <=> ~verificationResults[p].success
    /\ \A j \in ContributionIndices : \A f \in ArtifactNames :
        \A p \in 1..Len(OutcomesOf(At(contributionFolders, j), f)) :
            LET o == OutcomesOf(At(contributionFolders, j), f)[p]
                v == InvocationsOf(At(contributionFolders, j), f)
            IN  /\ (v # <<>> /\ v[1].result = "exit0") => o.errorMessage = Undefined
                /\ (v # <<>> /\ v[1].result # "exit0") => o.errorMessage # Undefined
                /\ v = <<>> => o.errorMessage # Undefined

\* C11 witness: the outcome list holds a passed verification, a failed one
\* and an unmatched artifact
C11_Witness ==
    /\ \E p \in 1..Len(verificationResults) : verificationResults[p].success
    /\ \E p \in 1..Len(verificationResults) :
        /\ ~verificationResults[p].success
        /\ verificationResults[p].errorMessage # MissingInitialMessage
    /\ \E p \in 1..Len(verificationResults) :
        verificationResults[p].errorMessage = MissingInitialMessage

\* C12: verifyZkeyContribution always returns a value to the loop: for every
\* verifier invocation that has ended there is one outcome, with success
\* exactly when the child exited with 0 and then without message, with the
\* message of the Error when execSync threw one (non-zero exit or failed
\* spawn), and with the text "Unknown error" when the thrown value is not an
\* Error; no ending of the invocation reaches the catch block of main.
C12_AdapterMapsResultToValue ==
    /\ \A q \in 1..Len(invocations) :
        LET v == invocations[q]
            o == SelectSeq(verificationResults,
                    LAMBDA r : /\ r.contributionFolder = v.argv[3][2]
                               /\ r.circuitName = Basename(v.argv[3][3], DotZkey))
        IN  IF v.result = Running THEN o = <<>>
            ELSE /\ Len(o) = 1
                 /\ o[1].success = (v.result = "exit0")
                 /\ v.result = "exit0" => o[1].errorMessage = Undefined
                 /\ v.result = "nonzero" => o[1].errorMessage = "Command failed"
                 /\ v.result = "spawnfail" => o[1].errorMessage = "spawnSync /bin/sh ENOENT"
                 /\ v.result = "nonerror" => o[1].errorMessage = "Unknown error"
    /\ invocations # <<>> =>
        (exitCode = 0 /\ \A p \in 1..Len(console) : console[p] # "Error")

\* C12 witness: a completed run with an invocation that exited with 0, one
\* with a non-zero exit, a failed spawn and a thrown value that is no Error
C12_Witness ==
    /\ Completed
    /\ \A r \in TryResults : \E q \in 1..Len(invocations) : invocations[q].result = r

\* C13: when the ordered folder list that main computed has fewer than two
\* folders, the run is over: the outcome list is empty, no verifier was
\* invoked, the last message is that there is nothing to verify (given once),
\* no error was reported and the exit code is 0.
C13_EmptyChain ==
    (ChainListed /\ Len(contributionFolders) < 2) =>
        /\ pc = "done"
        /\ verificationResults = <<>>
        /\ invocations = <<>>
        /\ console[Len(console)] = "Nothing to verify yet"
        /\ Len(SelectSeq(console, LAMBDA m : m = "Nothing to verify yet")) = 1
        /\ \A p \in 1..Len(console) : console[p] # "Error"
        /\ exitCode = 0

\* C13 witness: the run ended with the baseline as the only folder
C13_Witness ==
    /\ ChainListed
    /\ pc = "done"
    /\ Len(contributionFolders) = 1

\* C14: at the end of a run that entered the loop, every contribution folder
\* without artifacts, and every contribution folder when the baseline has
\* none, was taken up and left without outcome and without verifier
\* invocation, each such folder was reported once with the folder-level
\* message (not with the message of an unmatched artifact), and the loop went
\* on to the folders after it.
C14_FolderLevelFailure ==
    (pc = "done" /\ LoopEntered) =>
        /\ \A j \in ContributionIndices :
            NoArtifacts(j) =>
                /\ FolderProcessed(j)
                /\ \A p \in 1..Len(verificationResults) :
                    verificationResults[p].contributionFolder # At(contributionFolders, j)
                /\ \A q \in 1..Len(invocations) :
                    invocations[q].argv[3][2] # At(contributionFolders, j)
                /\ \A j2 \in ContributionIndices : j2 > j => FolderProcessed(j2)
        /\ Len(SelectSeq(console, LAMBDA m : m = NoZkeyFilesMessage)) =
                Cardinality({j \in ContributionIndices : NoArtifacts(j)})

\* C15: a run that ended in one of the three setup steps reported exactly one
\* error, has exit code 1, invoked no verifier, recorded no outcome and
\* printed no summary; and whenever a verifier was invoked, an outcome
\* recorded or the summary printed, the three setup steps had succeeded.
C15_SetupFailuresFatal ==
    /\ (pc = "done" /\ ~SetupPassed) =>
        /\ exitCode = 1
        /\ console[Len(console)] = "Error"
        /\ Len(SelectSeq(console, LAMBDA m : m = "Error")) = 1
        /\ invocations = <<>>
        /\ verificationResults = <<>>
        /\ ~report.printed
    /\ (invocations # <<>> \/ verificationResults # <<>> \/ report.printed) =>
        /\ SetupPassed
        /\ ptauFile = PtauPath

\* C15 witness: the run ended in the baseline step (ensureInitialSetup threw)
C15_Witness ==
    /\ pc = "done"
    /\ ~SetupPassed
    /\ ptauFile = PtauPath

\* C16: only the last verifier invocation can be running, and then the
\* driver waits in execSync for it and no step of main or verifyContribution
\* is enabled; the invocations and the outcomes are in ascending order of the
\* index of their folder in the ordered folder list, and none belongs to a
\* folder after the current one.
C16_StrictlySequential ==
    /\ \A q \in 1..Len(invocations) :
        invocations[q].result = Running => (q = Len(invocations) /\ pc = "execSync")
    /\ pc = "execSync" =>
        /\ invocations # <<>>
        /\ invocations[Len(invocations)].result = Running
        /\ invocations[Len(invocations)].argv[3] =
                PathJoin(contributionRootFolder, At(contributionFolders, i),
                         At(contributionZkeyFiles, k))
        /\ ~ENABLED (MainCheckEnv \/ MainEnsurePtau \/ MainEnsureInitialSetup
                        \/ MainDownloadInitialSetup \/ MainDownload \/ MainRefresh \/ VerifyContributionBegin
                        \/ VerifyArtifact \/ MainPrintResults)
    /\ \A q1, q2 \in 1..Len(invocations) :
        q1 < q2 => FolderIndexOf(invocations[q1].argv[3][2])
                        <= FolderIndexOf(invocations[q2].argv[3][2])
    /\ \A q \in 1..Len(invocations) : FolderIndexOf(invocations[q].argv[3][2]) <= i
    /\ \A p1, p2 \in 1..Len(verificationResults) :
        p1 < p2 => FolderIndexOf(verificationResults[p1].contributionFolder)
                        <= FolderIndexOf(verificationResults[p2].contributionFolder)
    /\ \A p \in 1..Len(verificationResults) :
        FolderIndexOf(verificationResults[p].contributionFolder) <= i

\* C16 witness: the driver waits for an invocation of the second contribution
\* folder after the invocations of the first one have ended
C16_Witness ==
    /\ pc = "execSync"
    /\ Len(invocations) >= 2
    /\ invocations[1].argv[3][2] # invocations[Len(invocations)].argv[3][2]

\* the number that the four digits at the start of a folder name denote
PrefixValue(name) ==
    (name[1] - 48) * 1000 + (name[2] - 48) * 100 + (name[3] - 48) * 10 + (name[4] - 48)

\* the directories of the root whose name starts with four digits and "_"
OrdinalDirectories ==
    {name \in DOMAIN dirs :
        /\ dirs[name].kind = "dir"
        /\ Len(name) >= 5
        /\ \A p \in 1..4 : name[p] \in 48..57
        /\ name[5] = 95}

\* C17: the list getContributionFolders returned holds exactly the
\* directories of the root whose name starts with four digits and an
\* underscore, each once, in strictly ascending lexical order, which is also
\* non-decreasing in the number of the four digits; it is the empty list,
\* without error, when there is no such directory.
C17_ListContributionFolders ==
    pc = "done" =>
        /\ Range(contributionFolders) = OrdinalDirectories
        /\ Len(contributionFolders) = Cardinality(OrdinalDirectories)
        /\ \A p, q \in 1..Len(contributionFolders) :
            p < q => /\ LexLess(contributionFolders[p], contributionFolders[q])
                     /\ PrefixValue(contributionFolders[p]) <= PrefixValue(contributionFolders[q])
        /\ OrdinalDirectories = {} => (contributionFolders = <<>> /\ exitCode = 0)

\* C17 witness: a listing of four folders, among them 0010_b, of a root that
\* also has a file with a folder name and a directory with another name
C17_Witness ==
    /\ pc = "done"
    /\ Len(contributionFolders) >= 4
    /\ OtherNames[4] \in Range(contributionFolders)
    /\ \E name \in DOMAIN dirs : dirs[name].kind = "file" /\ MatchesOrdinalPrefix(name)
    /\ \E name \in DOMAIN dirs : dirs[name].kind = "dir" /\ ~MatchesOrdinalPrefix(name)

\* C18: the totals of the printed report are counts over the outcome list:
\* totalTests is its length, passedTests the number of outcomes with success,
\* failedTests the number of outcomes without, and totalTests is their sum;
\* for the empty list all three are 0.
C18_TotalsAddUp ==
    report.printed =>
        /\ report.totalTests = Len(verificationResults)
        /\ report.passedTests =
            Cardinality({p \in 1..Len(verificationResults) : verificationResults[p].success})
        /\ report.failedTests =
            Cardinality({p \in 1..Len(verificationResults) : ~verificationResults[p].success})
        /\ report.totalTests = report.passedTests + report.failedTests
        /\ verificationResults = <<>> =>
            (report.totalTests = 0 /\ report.passedTests = 0 /\ report.failedTests = 0)

\* C18 witness: the report of a list with passed and failed outcomes, two of
\* them for the same folder and circuit
C18_Witness ==
    /\ report.printed
    /\ report.passedTests >= 1
    /\ report.failedTests >= 2
    /\ \E p, q \in 1..Len(verificationResults) :
        /\ p # q
        /\ verificationResults[p].contributionFolder = verificationResults[q].contributionFolder
        /\ verificationResults[p].circuitName = verificationResults[q].circuitName

\* C20 as stated: the rows of the printed report are the distinct folders of
\* the outcome list in the order of their first occurrence in the list.
C20_RowsInInsertionOrder ==
    report.printed =>
        report.rows = Distinct([p \in 1..Len(verificationResults) |->
                                    verificationResults[p].contributionFolder])

\* C20 amended: the rows of the printed report are the distinct folders of
\* the outcome list, one row each, in strictly ascending lexical order of the
\* folder name, whatever the order of the list.
C20_RowsSortedByFolder ==
    report.printed =>
        /\ Range(report.rows) =
            {verificationResults[p].contributionFolder : p \in 1..Len(verificationResults)}
        /\ \A p, q \in 1..Len(report.rows) :
            p < q => LexLess(report.rows[p], report.rows[q])

\* C20 witness: the report of a list in which a folder occurs first that
\* sorts after a later one
C20_Witness ==
    /\ report.printed
    /\ Len(report.rows) >= 2
    /\ \E p, q \in 1..Len(verificationResults) :
        /\ p < q
        /\ LexLess(verificationResults[q].contributionFolder,
                   verificationResults[p].contributionFolder)
        /\ \A p2 \in 1..(q - 1) :
            verificationResults[p2].contributionFolder # verificationResults[q].contributionFolder

\* the outcomes of the outcome list for a folder and a circuit
OutcomesFor(folder, circuit) ==
    SelectSeq(verificationResults,
              LAMBDA r : r.contributionFolder = folder /\ r.circuitName = circuit)

\* C21: the columns of the printed report are the distinct circuit names of
\* the outcome list in strictly ascending lexical order, and the table has a
\* cell for every row and column. A cell is the not-applicable marker exactly
\* when the list has no outcome for the pair; when the list has one outcome
\* for the pair (the data model allows no more), or several that agree, the
\* cell is PASS exactly when the list has an outcome for the pair with
\* success and FAIL exactly when it has one without; of several outcomes for
\* a pair the last one decides.
C21_ColumnsAndCells ==
    report.printed =>
        /\ Range(report.columns) =
            {verificationResults[p].circuitName : p \in 1..Len(verificationResults)}
        /\ \A p, q \in 1..Len(report.columns) :
            p < q => LexLess(report.columns[p], report.columns[q])
        /\ \A folder \in Range(report.rows) : \A circuit \in Range(report.columns) :
            LET o == OutcomesFor(folder, circuit)
                cell == report.cells[folder][circuit]
                agree == \A p, q \in 1..Len(o) : o[p].success = o[q].success
            IN  /\ cell \in {"PASS", "FAIL", "N/A"}
                /\ cell = "N/A" <=> o = <<>>
                /\ agree =>
                    /\ cell = "PASS" <=> \E p \in 1..Len(o) : o[p].success
                    /\ cell = "FAIL" <=> \E p \in 1..Len(o) : ~o[p].success
                /\ o # <<>> => (cell = "PASS" <=> o[Len(o)].success)

\* C21 witness: a printed table with two columns and a PASS, a FAIL and a
\* not-applicable cell, from a list whose circuits first occur in descending order
C21_Witness ==
    /\ report.printed
    /\ Len(report.columns) >= 2
    /\ LexLess(verificationResults[2].circuitName, verificationResults[1].circuitName)
    /\ \A mark \in {"PASS", "FAIL", "N/A"} :
        \E folder \in Range(report.rows) : \E circuit \in Range(report.columns) :
            report.cells[folder][circuit] = mark

\* every contribution folder holds exactly the artifact names of the
\* baseline, which has at least one
SameArtifactsEverywhere ==
    /\ ArtifactsOf(Baseline) # {}
    /\ \A j \in ContributionIndices :
        ArtifactsOf(At(contributionFolders, j)) = ArtifactsOf(Baseline)

\* every verifier invocation of the run exited with status 0
VerifierAlwaysSucceeded ==
    \A q \in 1..Len(invocations) : invocations[q].result = "exit0"

\* C22: when the run of n folders has ended, every contribution folder holds
\* exactly the k >= 1 artifact names of the baseline and every verifier
\* invocation succeeded, the summary was printed with n-1 rows (the
\* contribution folders), k columns, PASS in every cell, and the totals are
\* total = (n-1)*k, passed = (n-1)*k, failed = 0, without failure listing.
C22_AllPass ==
    (pc = "done" /\ LoopEntered /\ SameArtifactsEverywhere /\ VerifierAlwaysSucceeded) =>
        LET n == Len(contributionFolders)
            kk == Cardinality(ArtifactsOf(Baseline))
        IN  /\ report.printed
            /\ Len(report.rows) = n - 1
            /\ Range(report.rows) = {At(contributionFolders, j) : j \in ContributionIndices}
            /\ Len(report.columns) = kk
            /\ \A folder \in Range(report.rows) : \A circuit \in Range(report.columns) :
                report.cells[folder][circuit] = "PASS"
            /\ report.totalTests = (n - 1) * kk
            /\ report.passedTests = (n - 1) * kk
            /\ report.failedTests = 0
            /\ report.failures = <<>>

\* C22 witness: an all-pass run of three folders with two artifacts each
C22_Witness ==
    /\ Completed
    /\ SameArtifactsEverywhere
    /\ VerifierAlwaysSucceeded
    /\ Len(contributionFolders) >= 3
    /\ Cardinality(ArtifactsOf(Baseline)) >= 2

\* the contribution folders found locally: the directories of the root whose
\* name starts with four digits and "_"
LocalFolderCount ==
    Cardinality({name \in DOMAIN dirs :
                    dirs[name].kind \in {"dir", "noaccess"} /\ MatchesOrdinalPrefix(name)})

\* main announced the download of all contributions
BulkDownloadAttempted ==
    \E p \in 1..Len(console) : console[p] = "Downloading all contributions from S3"

\* C23: the step of main after the baseline step (the initial folder has its
\* required files) attempts the download of all contributions exactly when
\* the root has no or one contribution folder; with two or more it attempts
\* none, tells that the local files are used and leaves the root as it is.
C23_DownloadPolicy ==
    [][pc = "download" =>
        /\ hasRequiredInitialFiles(dirs)
        /\ (LocalFolderCount <= 1) <=>
                (console' = Append(console, "Downloading all contributions from S3"))
        /\ (LocalFolderCount >= 2) =>
                /\ console' = Append(console, "Using already downloaded contributions")
                /\ dirs' = dirs
        /\ pc' = "refresh"]_vars

\* C23 witness: the download was attempted with the baseline as the only
\* local folder and brought the contribution folders
C23_Witness ==
    /\ BulkDownloadAttempted
    /\ pc = "verifyContribution"
    /\ Len(contributionFolders) >= 3

\* the initial folder is a directory with a .r1cs file and a .zkey file
InitialFolderComplete ==
    /\ dirs[InitialFolderName].kind = "dir"
    /\ \E p \in 1..Len(dirs[InitialFolderName].entries) :
        EndsWith(dirs[InitialFolderName].entries[p], DotR1cs)
    /\ \E p \in 1..Len(dirs[InitialFolderName].entries) :
        EndsWith(dirs[InitialFolderName].entries[p], DotZkey)

\* C24: ensureInitialSetup announces a download exactly when the folder
\* 0000_initial is absent or lacks a .r1cs or a .zkey file, and then runs it;
\* it ends by returning (main goes on to the download step) or by throwing
\* (the run ends with exit code 1); whenever it has returned, 0000_initial
\* is a local directory with at least one .r1cs and one .zkey file.
C24_BaselineAvailability ==
    /\ [][/\ pc = "ensureInitialSetup" =>
              IF InitialFolderComplete
              THEN pc' = "download" /\ console' = console
              ELSE /\ pc' = "downloadInitialSetup"
                   /\ console' = Append(console, AttemptingDownloadMessage)
          /\ pc = "downloadInitialSetup" =>
              \/ pc' = "download" /\ exitCode' = 0
              \/ pc' = "done" /\ exitCode' = 1
                    /\ console' = Append(console, "Error")]_vars
    /\ [](pc \notin {"checkRequiredEnvVars", "ensurePtauFile", "ensureInitialSetup",
                      "downloadInitialSetup"}
            /\ (pc = "done" => SetupPassed)
          => InitialFolderComplete)

\* C24 witness: ensureInitialSetup returned after a download
C24_Witness ==
    /\ pc = "download"
    /\ console # <<>>
    /\ console[Len(console)] = AttemptingDownloadMessage

\* C30: after the attempt to download all contributions main always goes on
\* to the refreshed listing, without error and with exit code 0; when the
\* download failed, so that the baseline is still the only local folder, the
\* run ends with the message that there is nothing to verify, without error
\* and with exit code 0.
C30_FailedDownloadDoesNotAbort ==
    BulkDownloadAttempted =>
        /\ pc # "download"
        /\ pc = "refresh" =>
            (exitCode = 0 /\ \A p \in 1..Len(console) : console[p] # "Error")
        /\ (LocalFolderCount <= 1 /\ pc # "refresh") =>
            /\ pc = "done"
            /\ console[Len(console)] = "Nothing to verify yet"
            /\ \A p \in 1..Len(console) : console[p] # "Error"
            /\ exitCode = 0
            /\ verificationResults = <<>>

\* C30 witness: the run ended after a download of all contributions that failed
C30_Witness ==
    /\ BulkDownloadAttempted
    /\ pc = "done"
    /\ exitCode = 0
    /\ LocalFolderCount = 1
    /\ contributionFolders = <<InitialFolderName>>

\* list s is an initial part of list t
IsPrefix(s, t) == Len(s) <= Len(t) /\ SubSeq(t, 1, Len(s)) = s

\* the place of the artifact of a circuit in the listing of a folder
ListingPlace(folder, circuit) ==
    LET files == getZkeyFiles(dirs, folder)
    IN  CHOOSE p \in 1..Len(files) : Basename(files[p], DotZkey) = circuit

\* C25: every step of a run leaves the outcome list as it is or extends it at
\* its end, and only the steps of verifyContribution extend it; the outcomes
\* are in the order of the folders of the chain and, within a folder, in the
\* order of its artifact listing; the report is made once, after the loop has
\* gone through all folders, from the list as it is at the end of the run.
C25_AppendOnlySingleWriter ==
    /\ [][/\ IsPrefix(verificationResults, verificationResults')
          /\ verificationResults' # verificationResults =>
                /\ pc \in {"verifyArtifact", "execSync"}
                /\ Len(verificationResults') = Len(verificationResults) + 1
                /\ report' = report
          /\ report' # report =>
                /\ ~report.printed
                /\ \A j \in ContributionIndices : FolderProcessed(j)
                /\ report' = printResultsTable(verificationResults)]_vars
    /\ [](/\ \A p, q \in 1..Len(verificationResults) : p < q =>
                LET a == verificationResults[p]
                    b == verificationResults[q]
                IN  \/ FolderIndexOf(a.contributionFolder) < FolderIndexOf(b.contributionFolder)
                    \/ /\ a.contributionFolder = b.contributionFolder
                       /\ ListingPlace(a.contributionFolder, a.circuitName)
                            < ListingPlace(b.contributionFolder, b.circuitName)
          /\ report.printed =>
                /\ pc = "done"
                /\ report = printResultsTable(verificationResults))

\* C25 witness: the report was made from a list with outcomes of two folders,
\* two of them of one folder whose listing is not in ascending order
C25_Witness ==
    /\ Completed
    /\ \E p, q \in 1..Len(verificationResults) :
        verificationResults[p].contributionFolder # verificationResults[q].contributionFolder
    /\ \E p \in 1..(Len(verificationResults) - 1) :
        /\ verificationResults[p].contributionFolder
            = verificationResults[p + 1].contributionFolder
        /\ LexLess(verificationResults[p + 1].circuitName, verificationResults[p].circuitName)

\* the places of the failed outcomes in the outcome list, in ascending order
FailedPlaces ==
    SelectSeq([p \in 1..Len(verificationResults) |-> p],
              LAMBDA p : ~verificationResults[p].success)

\* C26: the failure listing of the printed report is emitted exactly when
\* failedTests > 0; it has one entry for each outcome without success, in the
\* order of the outcome list, so that its length is failedTests; an entry
\* shows the folder and the circuit name of its outcome and its error
\* message, or the text "Verification failed" when the outcome has none.
C26_FailureListing ==
    report.printed =>
        /\ report.failuresPrinted <=> report.failedTests > 0
        /\ ~report.failuresPrinted => report.failures = <<>>
        /\ Len(report.failures) = report.failedTests
        /\ Len(report.failures) = Len(FailedPlaces)
        /\ \A p \in 1..Len(report.failures) :
            LET outcome == verificationResults[FailedPlaces[p]]
                line == report.failures[p]
            IN  /\ line.contributionFolder = outcome.contributionFolder
                /\ line.circuitName = outcome.circuitName
                /\ outcome.errorMessage # Undefined =>
                        line.errorMessage = outcome.errorMessage
                /\ outcome.errorMessage = Undefined =>
                        line.errorMessage = "Verification failed"

\* C26 witness: a printed listing of two equal failed outcomes after a
\* passed one, the failed ones listed out of folder order or twice
C26_Witness ==
    /\ report.printed
    /\ Len(verificationResults) = 3
    /\ verificationResults[1].success
    /\ Len(report.failures) = 2
    /\ report.failures[1] = report.failures[2]
    /\ report.failures[1].errorMessage = MissingInitialMessage

\* the outcomes recorded for a contribution folder
OutcomesOfFolder(folder) ==
    SelectSeq(verificationResults, LAMBDA r : r.contributionFolder = folder)

\* the artifacts of the contribution folders that were not skipped, each with
\* the index of its folder
ArtifactsOfVerifiedFolders ==
    {pair \in ContributionIndices \X ArtifactNames :
        /\ ~NoArtifacts(pair[1])
        /\ pair[2] \in ArtifactsOf(At(contributionFolders, pair[1]))}

C28_BaselineIsInitialFolder ==
    LoopEntered =>
        /\ initialFolder = InitialFolderName
        /\ Baseline = InitialFolderName

\* the places in the outcome list of the outcomes of the contribution
\* folders that were not skipped
PlacesOfVerifiedFolders ==
    {p \in 1..Len(verificationResults) :
        \E j \in ContributionIndices :
            /\ ~NoArtifacts(j)
            /\ verificationResults[p].contributionFolder = At(contributionFolders, j)}

\* C29: at the end of a run that entered the loop, a contribution folder that
\* was skipped (it has no artifact, or the baseline has none) has no row in
\* the report and the totals count the outcomes of the other folders only;
\* when the baseline has no artifact, the run ends with an empty outcome list
\* and a report with the totals 0 / 0 / 0.
C29_SkippedFolderLeavesNoTrace ==
    (pc = "done" /\ LoopEntered) =>
        /\ report.printed =>
            /\ \A j \in ContributionIndices :
                NoArtifacts(j) => At(contributionFolders, j) \notin Range(report.rows)
            /\ report.totalTests = Cardinality(PlacesOfVerifiedFolders)
            /\ report.passedTests =
                Cardinality({p \in PlacesOfVerifiedFolders : verificationResults[p].success})
            /\ report.failedTests =
                Cardinality({p \in PlacesOfVerifiedFolders : ~verificationResults[p].success})
        /\ (Listable(Baseline) /\ ArtifactsOf(Baseline) = {}) =>
            /\ verificationResults = <<>>
            /\ report.printed
            /\ report.rows = <<>>
            /\ report.totalTests = 0
            /\ report.passedTests = 0
            /\ report.failedTests = 0

====
